---- MODULE Spec2Model ----
(***************************************************************************)
(* State-machine model of the voice-control client:                        *)
(*   - WebSocketService (services/websocket.ts, lines 18-490)              *)
(*   - the VoiceControlScreen start-up flow that drives it                 *)
(*     (services/websocket.ts, lines 661-715)                              *)
(*   - AudioService (services/audio.ts)                                    *)
(*                                                                         *)
(* Transport assumptions (socket.io-client is not part of the sources):    *)
(*   - a socket fires 'connect' every time it becomes connected; after an  *)
(*     automatic reconnection it then fires 'reconnect' while it already   *)
(*     reports connected;                                                  *)
(*   - every failed attempt fires 'connect_error'; before each automatic   *)
(*     retry the socket fires 'reconnect_attempt'; after                   *)
(*     reconnectionAttempts failed retries the socket gives up;            *)
(*   - socket.disconnect() on a connected socket fires 'disconnect'        *)
(*     synchronously; a transport loss fires 'disconnect' and the socket   *)
(*     retries on its own;                                                 *)
(*   - socket.emit either hands the message to the transport or throws;    *)
(*   - the socket waits min(reconnectionDelay * 2^k, reconnectionDelayMax) *)
(*     before retry k, the first term jittered by randomizationFactor;     *)
(*     options that connect() does not pass keep the socket's own values   *)
(*     (reconnectionDelayMax 5000 ms, randomizationFactor 0.5).            *)
(* Peer assumption (unnamed/part_008, connection flow): the server sends a *)
(* connection_response only in answer to a connection_request, on the      *)
(* connection that carried the request.                                    *)
(***************************************************************************)
EXTENDS Integers, Sequences, FiniteSets, TLC

\* ------------------------------------------------------------- bounds
MaxMsgs == 3          \* messages submitted to sendMessage in one run
MaxEmitFailures == 1  \* socket.emit calls that throw in one run
MaxSockets == 2       \* sockets created by connect() in one run
MaxCalls == 2         \* sendWithResponse calls in one run
MaxFailures == 6      \* failed connection attempts in one run of the retry scenario
MaxFaults == 1        \* failed connection attempts in one run of the other scenarios
MaxDrops == 1         \* transport losses in one run
MaxInbound == 2       \* inbound server messages in one run
MaxListeners == 1     \* observers registered through on() in one run
TickMs == 5000        \* granularity of the passage of time
MaxChunks == 3        \* chunks the recorders deliver in one run
MaxPasses == 2        \* startRecording calls in one run
MaxEffort == 5        \* application calls and environment events in one run of the await scenario
MaxStops == 3         \* stopRecording calls in one run
MaxRecords == 2       \* AudioRecord objects the native module creates in one run
MaxNativeChunks == 3  \* audioData events the recording threads send in one run
BufferLength == 3     \* entries of the recording thread's sample array (1024 in the source)

\* ------------------------------------------------- program constants
maxReconnectAttempts == 5
reconnectInterval == 1000
reconnectionDelayMax == 5000
ResponseTimeoutMs == 10000

VARIABLES
  \* WebSocketService fields
  sockets,            \* every socket created by io(): [st, attempts, re, promise]
  socket,             \* this.socket: index into sockets, 0 = null
  isConnecting,
  reconnectAttempts,
  heartbeatInterval,  \* TRUE while the setInterval timer is set
  messageQueue,       \* sequence of message ids
  eventListeners,     \* event name -> sequence of listeners
  sessionId,          \* 0 = null
  \* pending sendWithResponse promises and their timers
  calls,
  \* environment and observation
  submitted,          \* type of every message passed to sendMessage, by id
  wire,               \* message ids handed to socket.emit, in order
  emitFailures,
  failures,
  drops,
  inbound,            \* number of inbound messages dispatched
  answered,           \* connection_requests the peer has answered
  emitted,            \* names of the events emitted to subscribers
  screenPc,           \* VoiceControlScreen.initializeServices position
  silence,            \* 0: no heartbeat is unanswered; k > 0: k - 1 heartbeat
                      \* intervals have passed since an unanswered heartbeat was sent
  lost,               \* connection_requests whose connection ended unanswered
  notified,           \* event name -> observer callbacks run by emit so far
  flushing,           \* TRUE while the loop of flushMessageQueue is running
  resolvedEarly,      \* the values isConnected() had when a connect() call
                      \* resolved by its early return
  \* AudioService fields
  isRecording,
  sequence,
  audioChunks,        \* ids of the chunks collected by the current recording
  recorders,          \* every MediaRecorder created: [st, onstop, sid]; sid is the
                      \* session id the caller of stopRecording holds
  mediaRecorder,      \* this.mediaRecorder: index into recorders, 0 = null
  stream,             \* TRUE while this.stream holds a MediaStream
  \* AudioService: calls in progress, environment and observation
  starting,           \* startRecording calls waiting for getUserMedia
  processing,         \* chunks inside processAudioChunk: [chunk, pass]
  starts,             \* startRecording calls so far
  delivered,          \* dataavailable events with data so far
  audioLog,           \* events emitted to the AudioService listeners, in order
  stopCalls,          \* every stopRecording call that reached its promise:
                      \* [rec, status, running]; rec is the recorder whose onstop
                      \* it set, running is TRUE while that handler is running
  \* AudioRecorderModule (native) fields
  nativeIsRecording,  \* the AtomicBoolean isRecording
  audioRecords,       \* every AudioRecord created: its state
  audioRecord,        \* this.audioRecord: index into audioRecords, 0 = null
  recordingThread,    \* this.recordingThread: index into threads, 0 = null
  sequenceCounter,
  \* AudioRecorderModule: the recording threads and observation
  threads,            \* every thread started: [pc, rec], its position in
                      \* processAudioData and the AudioRecord it last read
  nativeLog,          \* events sent to React Native, in order
  \* processAudioData: the locals of one recording thread
  audioBuffer,        \* the short[] the thread reads into, reused by every read
  readResult,         \* samples the last read stored at the head of audioBuffer
  audioLevel,         \* the level put into the last audioData event
  earlierChunk        \* the samples and the level of one audioData event before it

wsVars == <<sockets, socket, isConnecting, reconnectAttempts, heartbeatInterval,
            messageQueue, eventListeners, sessionId, calls, submitted, wire,
            emitFailures, failures, drops, inbound, answered, emitted, screenPc,
            silence, lost, notified, flushing, resolvedEarly>>

\* the WebSocketService variables that sendMessage leaves alone
wsRest == <<sockets, socket, isConnecting, reconnectAttempts, heartbeatInterval,
            eventListeners, sessionId, calls, failures, drops, inbound,
            answered, emitted, screenPc, silence, lost, notified, flushing,
            resolvedEarly>>

audioVars == <<isRecording, sequence, audioChunks, recorders, mediaRecorder,
               stream, starting, processing, starts, delivered, audioLog,
               stopCalls>>

nativeVars == <<nativeIsRecording, audioRecords, audioRecord, recordingThread,
                sequenceCounter, threads, nativeLog, audioBuffer, readResult,
                audioLevel, earlierChunk>>

vars == <<wsVars, audioVars, nativeVars>>

\* ------------------------------------------------------------ helpers
\* the values of a few 16-bit signed samples, the extremes among them
Samples == {-32768, 0, 32767}

\* no audioData event yet
NoChunk == [samples |-> <<>>, level |-> 0]

Min(a, b) == IF a <= b THEN a ELSE b

IsPrefix(p, q) == Len(p) <= Len(q) /\ SubSeq(q, 1, Len(p)) = p

Events == {"connection_response", "status_update", "message"}
InboundTypes == {"connection_response", "status_update"}

\* the server's periodic heartbeat: a message type no part of the application
\* subscribes to
HeartbeatTypes == {"heartbeat"}
AllEvents == Events \cup HeartbeatTypes

NoCall == [status |-> "none", armed |-> FALSE, remaining |-> 0, age |-> 0,
           settles |-> 0, resolvedBy |-> 0]

NewSocket == [st |-> "opening", attempts |-> 0, re |-> FALSE, promise |-> "pending"]

\* socket?.connected, read through this.socket
Connected(ss, cur) == cur # 0 /\ ss[cur].st = "connected"
isConnected == Connected(sockets, socket)

\* ------------------------------------------------ reconnection delay
Pow2(k) == 2 ^ k

\* The delays the socket may wait before automatic reconnection attempt
\* number k (k = 0, 1, ...) under the options connect() passes to io():
\* reconnectionDelay is this.reconnectInterval; reconnectionDelayMax and
\* randomizationFactor are not passed, so the socket applies its own
\* (5000 ms and 0.5). The socket draws rand in [0, 1), here in tenths:
\*   ms = reconnectionDelay * 2^k; deviation = floor(rand * 0.5 * ms);
\*   ms = (floor(rand * 10) is even) ? ms - deviation : ms + deviation;
\*   delay = min(ms, reconnectionDelayMax)
reconnectionDelays(k) ==
  LET ms == reconnectInterval * Pow2(k)
  IN  {Min(IF r % 2 = 0 THEN ms - ((r * ms) \div 20) ELSE ms + ((r * ms) \div 20),
           reconnectionDelayMax) : r \in 0..9}

\* ------------------------------------------------------- sendMessage
\* sendMessage whose catch block does not push the message back
SendOutcomesDropOnThrow(conn, q, w, f, m) ==
  IF ~conn
    THEN {<<Append(q, m), w, f>>}
    ELSE {<<q, Append(w, m), f>>}
         \cup (IF f < MaxEmitFailures THEN {<<q, w, f + 1>>} ELSE {})

\* The outcomes of sendMessage(m): <<queue, wire, emitFailures>>.
SendOutcomes(conn, q, w, f, m) ==
  IF ~conn
    THEN {<<Append(q, m), w, f>>}
    ELSE {<<q, Append(w, m), f>>}
         \cup (IF f < MaxEmitFailures THEN {<<Append(q, m), w, f + 1>>} ELSE {})

\* The outcomes of flushMessageQueue().
RECURSIVE FlushOutcomes(_, _, _, _)
FlushOutcomes(conn, q, w, f) ==
  IF Len(q) > 0 /\ conn
    THEN UNION {FlushOutcomes(conn, o[1], o[2], o[3]) :
                  o \in SendOutcomes(conn, Tail(q), w, f, Head(q))}
    ELSE {<<q, w, f>>}

\* --------------------------------------------------- listeners, emit
\* off(event, callback): splice the first occurrence of the callback
off(ls, l) ==
  IF \E i \in 1..Len(ls) : ls[i] = l
    THEN LET i == CHOOSE k \in 1..Len(ls) :
                     ls[k] = l /\ \A j \in 1..(k - 1) : ls[j] # l
         IN  SubSeq(ls, 1, i - 1) \o SubSeq(ls, i + 1, Len(ls))
    ELSE ls

\* on(event, callback)
on(ls, l) == Append(ls, l)

\* resolve / reject of a promise: only the first settlement takes effect
Settle(call, how, n) ==
  [call EXCEPT !.status = IF call.status = "pending" THEN how ELSE @,
               !.resolvedBy = IF call.status = "pending" THEN n ELSE @,
               !.settles = @ + 1]

\* responseHandler without its clearTimeout(timeoutId)
responseHandlerNoClear(cs, ls, c, n) ==
  <<[cs EXCEPT ![c] = Settle(@, "resolved", n)], off(ls, c)>>

\* responseHandler of call c, run for inbound message n: <<calls, listeners>>
responseHandler(cs, ls, c, n) ==
  <<[cs EXCEPT ![c] = Settle([@ EXCEPT !.armed = FALSE], "resolved", n)],
    off(ls, c)>>

\* a setTimeout callback without its this.off(responseType, responseHandler)
timeoutHandlerNoOff(cs, ls, c) ==
  <<[cs EXCEPT ![c] = Settle([@ EXCEPT !.armed = FALSE], "rejected", 0)], ls>>

\* the setTimeout callback of call c: <<calls, listeners>>
timeoutHandler(cs, ls, c) ==
  <<[cs EXCEPT ![c] = Settle([@ EXCEPT !.armed = FALSE], "rejected", 0)],
    off(ls, c)>>

\* emit(event, data): listeners.forEach over the live array; listener 0 is an
\* application observer, listener c > 0 the responseHandler of call c.
\* Result: <<calls, listeners, number of observer callbacks run>>.
RECURSIVE emit(_, _, _, _)
emit(cs, ls, i, n) ==
  IF i > Len(ls)
    THEN <<cs, ls, 0>>
    ELSE IF ls[i] = 0
      THEN LET r == emit(cs, ls, i + 1, n)
           IN  <<r[1], r[2], r[3] + 1>>
      ELSE LET r == responseHandler(cs, ls, ls[i], n)
           IN  emit(r[1], r[2], i + 1, n)

\* handleMessage without its emit('message', message)
handleMessageNoGeneric(t, sid, n) ==
  LET setSid == t = "connection_response" /\ sid # 0
      r1 == emit(calls, eventListeners[t], 1, n)
  IN  <<r1[1], [eventListeners EXCEPT ![t] = r1[2]],
        IF setSid THEN sid ELSE sessionId,
        emitted \cup (IF setSid THEN {"session_id_changed"} ELSE {}) \cup {t},
        [notified EXCEPT ![t] = @ + r1[3]]>>

\* handleMessage(message) for inbound message number n of type t carrying
\* session id sid: <<calls, eventListeners, sessionId, emitted, notified>>
handleMessage(t, sid, n) ==
  LET setSid == t = "connection_response" /\ sid # 0
      r1 == emit(calls, eventListeners[t], 1, n)
      el1 == [eventListeners EXCEPT ![t] = r1[2]]
      n1 == [notified EXCEPT ![t] = @ + r1[3]]
      r2 == emit(r1[1], el1["message"], 1, n)
      el2 == [el1 EXCEPT !["message"] = r2[2]]
      n2 == [n1 EXCEPT !["message"] = @ + r2[3]]
  IN  <<r2[1], el2,
        IF setSid THEN sid ELSE sessionId,
        emitted \cup (IF setSid THEN {"session_id_changed"} ELSE {})
                \cup {t, "message"},
        n2>>

\* ---------------------------------------------------------------- Init
InitServices ==
  /\ sockets = <<>>
  /\ socket = 0
  /\ isConnecting = FALSE
  /\ reconnectAttempts = 0
  /\ heartbeatInterval = FALSE
  /\ messageQueue = <<>>
  /\ eventListeners = [e \in AllEvents |-> <<>>]
  /\ sessionId = 0
  /\ calls = [c \in 1..MaxCalls |-> NoCall]
  /\ submitted = <<>>
  /\ wire = <<>>
  /\ emitFailures = 0
  /\ failures = 0
  /\ drops = 0
  /\ inbound = 0
  /\ answered = 0
  /\ emitted = {}
  /\ screenPc = "idle"
  /\ silence = 0
  /\ lost = 0
  /\ notified = [e \in AllEvents |-> 0]
  /\ flushing = FALSE
  /\ resolvedEarly = {}
  /\ isRecording = FALSE
  /\ sequence = 0
  /\ audioChunks = <<>>
  /\ recorders = <<>>
  /\ mediaRecorder = 0
  /\ stream = FALSE
  /\ starting = 0
  /\ processing = {}
  /\ starts = 0
  /\ delivered = 0
  /\ audioLog = <<>>
  /\ stopCalls = <<>>
  /\ nativeIsRecording = FALSE
  /\ audioRecords = <<>>
  /\ audioRecord = 0
  /\ recordingThread = 0
  /\ sequenceCounter = 0
  /\ threads = <<>>
  /\ nativeLog = <<>>
  /\ readResult = 0
  /\ audioLevel = 0
  /\ earlierChunk = NoChunk

\* new short[1024]: a fresh array holds zeros
Init == InitServices /\ audioBuffer = [i \in 1..BufferLength |-> 0]

\* the thread's array part-way through a recording: any samples
InitLevel == InitServices /\ audioBuffer \in [1..BufferLength -> Samples]

\* ------------------------------------------------- WebSocketService API
\* sendMessage(message) for a new message of type t
sendMessage(t) ==
  /\ submitted' = Append(submitted, t)
  /\ \E o \in SendOutcomes(isConnected, messageQueue, wire, emitFailures,
                           Len(submitted) + 1) :
       /\ messageQueue' = o[1]
       /\ wire' = o[2]
       /\ emitFailures' = o[3]

\* connect(): the body after the early return
connect ==
  /\ ~(isConnected \/ isConnecting)
  /\ isConnecting' = TRUE
  /\ sockets' = Append(sockets, NewSocket)
  /\ socket' = Len(sockets) + 1
  /\ UNCHANGED <<audioVars, nativeVars, flushing, resolvedEarly, silence, lost, notified,
                 reconnectAttempts, heartbeatInterval, messageQueue,
                 eventListeners, sessionId, calls, submitted, wire,
                 emitFailures, failures, drops, inbound, answered,
                 emitted>>

\* connect() called by the application while socket.connected or
\* isConnecting: the early return, return Promise.resolve()
ConnectEarly ==
  /\ screenPc # "idle"
  /\ isConnected \/ isConnecting
  /\ resolvedEarly' = resolvedEarly \cup {isConnected}
  /\ UNCHANGED <<audioVars, nativeVars, flushing, sockets, socket, isConnecting,
                 reconnectAttempts, heartbeatInterval, messageQueue,
                 eventListeners, sessionId, calls, submitted, wire,
                 emitFailures, failures, drops, inbound, answered, emitted,
                 screenPc, silence, lost, notified>>

\* connect() called again by the application
Connect ==
  /\ screenPc # "idle"
  /\ connect
  /\ UNCHANGED screenPc

\* connection_requests handed to the transport so far
Requests == Cardinality({i \in 1..Len(wire) : submitted[wire[i]] = "connection_request"})

\* connection_requests the peer holds unanswered: the peer answers a request
\* on the connection that carried it, which is always this.socket's
Outstanding == Requests - answered - lost

\* a disconnect() that also empties messageQueue
DisconnectAbandonsQueue ==
  /\ socket # 0
  /\ silence' = 0
  /\ lost' = lost + Outstanding
  /\ heartbeatInterval' = FALSE
  /\ sockets' = [sockets EXCEPT ![socket].st = "closed"]
  /\ emitted' = IF sockets[socket].st = "connected"
                  THEN emitted \cup {"disconnect"} ELSE emitted
  /\ socket' = 0
  /\ sessionId' = 0
  /\ messageQueue' = <<>>
  /\ UNCHANGED <<audioVars, nativeVars, flushing, resolvedEarly, notified, isConnecting, reconnectAttempts,
                 eventListeners, calls, submitted, wire, emitFailures, failures,
                 drops, inbound, answered, screenPc>>

\* disconnect()
Disconnect ==
  /\ socket # 0
  /\ silence' = 0
  /\ lost' = lost + Outstanding
  /\ heartbeatInterval' = FALSE
  /\ sockets' = [sockets EXCEPT ![socket].st = "closed"]
  /\ emitted' = IF sockets[socket].st = "connected"
                  THEN emitted \cup {"disconnect"} ELSE emitted
  /\ socket' = 0
  /\ sessionId' = 0
  /\ UNCHANGED <<audioVars, nativeVars, flushing, resolvedEarly, notified,
                 isConnecting, reconnectAttempts, messageQueue, eventListeners,
                 calls, submitted, wire, emitFailures, failures, drops, inbound,
                 answered, screenPc>>

\* sendAudioData(...) and the other fire-and-forget senders
SendMessage ==
  /\ sendMessage("audio_data")
  /\ UNCHANGED <<audioVars, nativeVars, flushing, resolvedEarly, silence, lost, notified,
                 sockets, socket, isConnecting, reconnectAttempts,
                 heartbeatInterval, eventListeners, sessionId, calls, failures,
                 drops, inbound, answered, emitted, screenPc>>

\* sendConnectionRequest(): sendWithResponse(message, 'connection_response')
sendWithResponse(c) ==
  /\ calls[c].status = "none"
  /\ \A d \in 1..(c - 1) : calls[d].status # "none"
  /\ calls' = [calls EXCEPT ![c] =
                 [status |-> "pending", armed |-> TRUE,
                  remaining |-> ResponseTimeoutMs, age |-> 0, settles |-> 0,
                  resolvedBy |-> 0]]
  /\ eventListeners' = [eventListeners EXCEPT
                          !["connection_response"] = on(@, c)]
  /\ sendMessage("connection_request")

SendConnectionRequest ==
  /\ \E c \in 1..MaxCalls : sendWithResponse(c)
  /\ UNCHANGED <<audioVars, nativeVars, flushing, resolvedEarly, silence, lost, notified,
                 sockets, socket, isConnecting, reconnectAttempts,
                 heartbeatInterval, sessionId, failures, drops, inbound,
                 answered, emitted, screenPc>>

\* on(event, callback) called by the application
On ==
  /\ \E e \in Events : eventListeners' = [eventListeners EXCEPT ![e] = on(@, 0)]
  /\ UNCHANGED <<audioVars, nativeVars, flushing, resolvedEarly, silence, lost, notified,
                 sockets, socket, isConnecting, reconnectAttempts,
                 heartbeatInterval, messageQueue, sessionId, calls, submitted,
                 wire, emitFailures, failures, drops, inbound, answered, emitted, screenPc>>

\* ------------------------------------------------------ socket events
\* 'connect' handler (and, after an automatic reconnection, the 'reconnect'
\* handler) of socket s
SocketOpen(s) ==
  /\ sockets[s].st = "opening"
  /\ sockets' = [sockets EXCEPT ![s] =
                   [st |-> "connected", attempts |-> 0, re |-> FALSE,
                    promise |-> IF sockets[s].promise = "pending"
                                  THEN "resolved" ELSE sockets[s].promise]]
  /\ isConnecting' = FALSE
  /\ reconnectAttempts' = 0
  /\ heartbeatInterval' = TRUE
  /\ silence' = 0
  /\ IF sockets[s].re
       THEN /\ \E o \in FlushOutcomes(Connected(sockets', socket), messageQueue,
                                      wire, emitFailures) :
                 /\ messageQueue' = o[1]
                 /\ wire' = o[2]
                 /\ emitFailures' = o[3]
            /\ emitted' = emitted \cup {"reconnect"}
       ELSE UNCHANGED <<messageQueue, wire, emitFailures, emitted>>
  /\ UNCHANGED <<audioVars, nativeVars, flushing, resolvedEarly, lost, notified,
                 socket, eventListeners, sessionId, calls, submitted, failures,
                 drops, inbound, answered, screenPc>>

\* the 'connect' handler of socket s and the 'reconnect' handler up to its
\* call of flushMessageQueue, whose loop then runs step by step
ReconnectBegin(s) ==
  /\ sockets[s].st = "opening"
  /\ sockets[s].re
  /\ sockets' = [sockets EXCEPT ![s] =
                   [st |-> "connected", attempts |-> 0, re |-> FALSE,
                    promise |-> IF sockets[s].promise = "pending"
                                  THEN "resolved" ELSE sockets[s].promise]]
  /\ isConnecting' = FALSE
  /\ reconnectAttempts' = 0
  /\ heartbeatInterval' = TRUE
  /\ silence' = 0
  /\ flushing' = TRUE
  /\ UNCHANGED <<audioVars, nativeVars, resolvedEarly, lost, notified,
                 messageQueue, wire,
                 emitFailures, emitted, socket, eventListeners, sessionId,
                 calls, submitted, failures, drops, inbound, answered, screenPc>>

\* one iteration of the loop of flushMessageQueue: the head of the queue is
\* shifted out and passed to sendMessage.  Nothing in the code limits the
\* throws of socket.emit, so they are not counted here.
FlushIteration ==
  /\ flushing
  /\ Len(messageQueue) > 0 /\ isConnected
  /\ \E o \in SendOutcomes(isConnected, Tail(messageQueue), wire, 0,
                           Head(messageQueue)) :
       /\ messageQueue' = o[1]
       /\ wire' = o[2]
  /\ UNCHANGED <<audioVars, nativeVars, flushing, resolvedEarly, emitFailures, sockets, socket,
                 isConnecting, reconnectAttempts, heartbeatInterval,
                 eventListeners, sessionId, calls, submitted, failures, drops,
                 inbound, answered, emitted, screenPc, silence, lost, notified>>

\* the loop condition of flushMessageQueue is false: it returns and the
\* 'reconnect' handler emits 'reconnect'
FlushReturn ==
  /\ flushing
  /\ ~(Len(messageQueue) > 0 /\ isConnected)
  /\ flushing' = FALSE
  /\ emitted' = emitted \cup {"reconnect"}
  /\ UNCHANGED <<audioVars, nativeVars, resolvedEarly, messageQueue, wire,
                 emitFailures,
                 sockets, socket, isConnecting, reconnectAttempts,
                 heartbeatInterval, eventListeners, sessionId, calls, submitted,
                 failures, drops, inbound, answered, screenPc, silence, lost,
                 notified>>

\* 'connect_error' handler of socket s; the socket retries or gives up
SocketError(s) ==
  /\ sockets[s].st = "opening"
  /\ failures' = failures + 1
  /\ sockets' = [sockets EXCEPT ![s] =
                   [@ EXCEPT !.st = IF sockets[s].attempts >= maxReconnectAttempts
                                      THEN "failed" ELSE "backoff",
                             !.promise = IF @ = "pending" THEN "rejected" ELSE @]]
  /\ isConnecting' = FALSE
  /\ UNCHANGED <<audioVars, nativeVars, flushing, resolvedEarly, silence, lost, notified,
                 socket, reconnectAttempts, heartbeatInterval, messageQueue,
                 eventListeners, sessionId, calls, submitted, wire,
                 emitFailures, drops, inbound, answered, emitted, screenPc>>

\* 'reconnect_attempt' handler of socket s
ReconnectAttempt(s) ==
  /\ sockets[s].st = "backoff"
  /\ sockets' = [sockets EXCEPT ![s] =
                   [@ EXCEPT !.st = "opening", !.attempts = @ + 1, !.re = TRUE]]
  /\ emitted' = emitted \cup {"reconnect_attempt"}
  /\ UNCHANGED <<audioVars, nativeVars, flushing, resolvedEarly, silence, lost, notified,
                 socket, isConnecting, reconnectAttempts, heartbeatInterval,
                 messageQueue, eventListeners, sessionId, calls, submitted,
                 wire, emitFailures, failures, drops, inbound, answered, screenPc>>

\* the 'disconnect' handler without its this.sessionId = null
SocketDropKeepsSession(s) ==
  /\ sockets[s].st = "connected"
  /\ drops' = drops + 1
  /\ sockets' = [sockets EXCEPT ![s] = [@ EXCEPT !.st = "backoff", !.attempts = 0]]
  /\ heartbeatInterval' = FALSE
  /\ silence' = 0
  /\ lost' = IF s = socket THEN lost + Outstanding ELSE lost
  /\ emitted' = emitted \cup {"disconnect"}
  /\ UNCHANGED <<audioVars, nativeVars, flushing, resolvedEarly, notified, socket, isConnecting, reconnectAttempts,
                 messageQueue, eventListeners, calls, submitted, wire,
                 emitFailures, failures, inbound, answered, screenPc, sessionId>>

\* 'disconnect' handler of socket s on a transport loss
SocketDrop(s) ==
  /\ sockets[s].st = "connected"
  /\ drops' = drops + 1
  /\ sockets' = [sockets EXCEPT ![s] = [@ EXCEPT !.st = "backoff", !.attempts = 0]]
  /\ heartbeatInterval' = FALSE
  /\ silence' = 0
  /\ lost' = IF s = socket THEN lost + Outstanding ELSE lost
  /\ sessionId' = 0
  /\ emitted' = emitted \cup {"disconnect"}
  /\ UNCHANGED <<audioVars, nativeVars, flushing, resolvedEarly, notified,
                 socket, isConnecting, reconnectAttempts, messageQueue,
                 eventListeners, calls, submitted, wire, emitFailures, failures,
                 inbound, answered, screenPc>>

\* an inbound message of type t on socket s: handleMessage
Receive(s, t) ==
  /\ sockets[s].st = "connected"
  /\ t = "connection_response" => s = socket /\ Outstanding > 0
  /\ inbound' = inbound + 1
  /\ silence' = 0
  /\ answered' = IF t = "connection_response" THEN answered + 1 ELSE answered
  /\ LET r == handleMessage(t, answered + 1, inbound + 1)
     IN  /\ calls' = r[1]
         /\ eventListeners' = r[2]
         /\ sessionId' = r[3]
         /\ emitted' = r[4]
         /\ notified' = r[5]
  /\ UNCHANGED <<audioVars, nativeVars, flushing, resolvedEarly, lost,
                 sockets, socket, isConnecting, reconnectAttempts,
                 heartbeatInterval, messageQueue, submitted, wire, emitFailures,
                 failures, drops, screenPc>>

\* --------------------------------------------------------------- timers
\* the heartbeat setInterval callback
HeartbeatFire ==
  /\ heartbeatInterval
  /\ isConnected
  /\ sendMessage("heartbeat_response")
  /\ silence' = IF silence > 0 THEN silence + 1
                ELSE IF wire' # wire THEN 1 ELSE 0
  /\ UNCHANGED <<audioVars, nativeVars, flushing, resolvedEarly, lost, notified,
                 sockets, socket, isConnecting, reconnectAttempts,
                 heartbeatInterval, eventListeners, sessionId, calls, failures,
                 drops, inbound, answered, emitted, screenPc>>

\* the setTimeout callback of sendWithResponse call c
TimerFire(c) ==
  /\ calls[c].armed
  /\ calls[c].remaining = 0
  /\ LET r == timeoutHandler(calls, eventListeners["connection_response"], c)
     IN  /\ calls' = r[1]
         /\ eventListeners' = [eventListeners EXCEPT
                                 !["connection_response"] = r[2]]
  /\ UNCHANGED <<audioVars, nativeVars, flushing, resolvedEarly, silence, lost, notified,
                 sockets, socket, isConnecting, reconnectAttempts,
                 heartbeatInterval, messageQueue, sessionId, submitted, wire,
                 emitFailures, failures, drops, inbound, answered,
                 emitted, screenPc>>

Armed == {c \in 1..MaxCalls : calls[c].armed}
Pending == {c \in 1..MaxCalls : calls[c].status = "pending"}

\* how far time may advance: to the next due timer, TickMs at most
Step ==
  IF Armed = {} THEN TickMs
  ELSE Min(TickMs, calls[CHOOSE c \in Armed :
                           \A d \in Armed : calls[c].remaining <= calls[d].remaining].remaining)

\* time passes; a timer that is due fires before time passes further
Tick ==
  /\ Armed \cup Pending # {}
  /\ \A c \in Armed : calls[c].remaining > 0
  /\ calls' = [c \in 1..MaxCalls |->
       [calls[c] EXCEPT
          !.remaining = IF calls[c].armed THEN @ - Step ELSE @,
          !.age = IF calls[c].status = "pending"
                    THEN Min(@ + Step, ResponseTimeoutMs + TickMs) ELSE @]]
  /\ UNCHANGED <<audioVars, nativeVars, flushing, resolvedEarly, silence, lost, notified,
                 sockets, socket, isConnecting, reconnectAttempts,
                 heartbeatInterval, messageQueue, eventListeners, sessionId,
                 submitted, wire, emitFailures, failures, drops, inbound,
                 answered, emitted, screenPc>>

\* ------------------------------------- VoiceControlScreen.initializeServices
\* await webSocketService.connect()
ScreenConnect ==
  /\ screenPc = "idle"
  /\ connect
  /\ screenPc' = "awaitConnect"

\* the promise resolved: webSocketService.sendMessage(connectionRequest)
ScreenHandshake ==
  /\ screenPc = "awaitConnect"
  /\ sockets[1].promise = "resolved"
  /\ screenPc' = "done"
  /\ sendMessage("connection_request")
  /\ UNCHANGED <<audioVars, nativeVars, flushing, resolvedEarly, silence, lost, notified,
                 sockets, socket, isConnecting, reconnectAttempts,
                 heartbeatInterval, eventListeners, sessionId, calls, failures,
                 drops, inbound, answered, emitted>>

\* the promise rejected: the catch block
ScreenFailed ==
  /\ screenPc = "awaitConnect"
  /\ sockets[1].promise = "rejected"
  /\ screenPc' = "failed"
  /\ UNCHANGED <<audioVars, nativeVars, flushing, resolvedEarly, silence, lost, notified,
                 sockets, socket, isConnecting, reconnectAttempts,
                 heartbeatInterval, messageQueue, eventListeners, sessionId,
                 calls, submitted, wire, emitFailures, failures, drops, inbound,
                 answered, emitted>>

\* ------------------------------------------ VoiceControlScreen state
\* appState.connection.sessionId and .isConnected: written by the screen's
\* 'connection_response' and 'disconnect' listeners, in the dispatches that
\* write WebSocketService.sessionId
appSessionId == sessionId
appIsConnected == sessionId # 0

\* appState.connection.sessionId as the audio_chunk listener reads it: the
\* listener is created once, by the effect of the first render, and keeps
\* the appState of that render, which has no sessionId
capturedSessionId == 0

\* ---------------------------------------------------------- AudioService
\* the recording pass in progress: the number of recordings started
pass == Len(recorders)

\* an entry of the listeners' event log; the events carry no isFinal field
AudioEvent(ev, p, chunk, seq) ==
  [ev |-> ev, pass |-> p, chunk |-> chunk, sequence |-> seq, isFinal |-> FALSE]

\* startRecording() up to its await of getUserMedia
StartRecording ==
  /\ ~isRecording
  /\ starts' = starts + 1
  /\ starting' = starting + 1
  /\ UNCHANGED <<wsVars, nativeVars, stopCalls, isRecording, sequence, audioChunks, recorders,
                 mediaRecorder, stream, processing, delivered, audioLog>>

\* startRecording() while isRecording: throws 'Already recording'
StartAlreadyRecording ==
  /\ isRecording
  /\ starts' = starts + 1
  /\ UNCHANGED <<wsVars, nativeVars, stopCalls, isRecording, sequence, audioChunks, recorders,
                 mediaRecorder, stream, starting, processing, delivered, audioLog>>

\* getUserMedia resolved: the rest of startRecording()
StartGranted ==
  /\ starting > 0
  /\ starting' = starting - 1
  /\ stream' = TRUE
  /\ recorders' = Append(recorders, [st |-> "recording", onstop |-> FALSE,
                                     sid |-> 0])
  /\ mediaRecorder' = Len(recorders) + 1
  /\ audioChunks' = <<>>
  /\ isRecording' = TRUE
  /\ sequence' = 0
  /\ audioLog' = Append(audioLog, AudioEvent("recording_started", pass + 1, 0, 0))
  /\ UNCHANGED <<wsVars, nativeVars, stopCalls, processing, starts, delivered>>

\* a startRecording that sets isRecording before its await and leaves it set
\* when getUserMedia rejects
StartDeniedLate ==
  /\ starting > 0
  /\ starting' = starting - 1
  /\ isRecording' = TRUE
  /\ UNCHANGED <<wsVars, nativeVars, stopCalls, sequence, audioChunks, recorders,
                 mediaRecorder, stream, processing, starts, delivered, audioLog>>

\* getUserMedia rejected: the catch block of startRecording()
StartDenied ==
  /\ starting > 0
  /\ starting' = starting - 1
  /\ UNCHANGED <<wsVars, nativeVars, stopCalls, isRecording, sequence, audioChunks, recorders,
                 mediaRecorder, stream, processing, starts, delivered, audioLog>>

\* getUserMedia resolved and new MediaRecorder(...) throws: this.stream holds
\* the open stream, and the catch block only rethrows
StartConstructorThrows ==
  /\ starting > 0
  /\ starting' = starting - 1
  /\ stream' = TRUE
  /\ UNCHANGED <<wsVars, nativeVars, stopCalls, isRecording, sequence, audioChunks,
                 recorders, mediaRecorder, processing, starts, delivered,
                 audioLog>>

\* getUserMedia resolved, the recorder constructed and mediaRecorder.start(100)
\* throws: the stream and the recorder stay in the fields
StartStartThrows ==
  /\ starting > 0
  /\ starting' = starting - 1
  /\ stream' = TRUE
  /\ recorders' = Append(recorders, [st |-> "inactive", onstop |-> FALSE,
                                     sid |-> 0])
  /\ mediaRecorder' = Len(recorders) + 1
  /\ audioChunks' = <<>>
  /\ UNCHANGED <<wsVars, nativeVars, stopCalls, isRecording, sequence, processing, starts,
                 delivered, audioLog>>

\* mediaRecorder.ondataavailable for a chunk of the given size
ondataavailable(size) ==
  IF size > 0
    THEN /\ audioChunks' = Append(audioChunks, delivered + 1)
         /\ sequence' = sequence + 1
         /\ delivered' = delivered + 1
         /\ processing' = processing \cup {[chunk |-> delivered + 1, pass |-> pass]}
    ELSE UNCHANGED <<audioChunks, sequence, delivered, processing>>

\* recorder r delivers the data of a 100 ms timeslice
DataAvailable(r) ==
  /\ recorders[r].st = "recording"
  /\ ondataavailable(1)
  /\ UNCHANGED <<wsVars, nativeVars, stopCalls, isRecording, recorders, mediaRecorder, stream,
                 starting, starts, audioLog>>

\* processAudioChunk(chunk) after its awaits: the audio_chunk event, and the
\* screen's audio_chunk listener, which sends audio_data if it holds a session id
ProcessAudioChunk ==
  \E k \in processing :
    /\ processing' = processing \ {k}
    /\ audioLog' = Append(audioLog, AudioEvent("audio_chunk", k.pass, k.chunk, sequence))
    /\ IF capturedSessionId # 0
         THEN sendMessage("audio_data") /\ UNCHANGED wsRest
         ELSE UNCHANGED wsVars
    /\ UNCHANGED <<nativeVars, stopCalls, isRecording, sequence, audioChunks, recorders,
                   mediaRecorder, stream, starting, starts, delivered>>

\* a stopRecording call on recorder r with its promise in the given state
StopCall(r, status) == [rec |-> r, status |-> status, running |-> FALSE]

\* the stopRecording call whose handler recorder r holds in onstop: the last
\* call that set it
Handler(r) ==
  CHOOSE i \in 1..Len(stopCalls) :
    /\ stopCalls[i].rec = r
    /\ \A j \in (i + 1)..Len(stopCalls) : stopCalls[j].rec # r

\* stopRecording(): recorder.onstop is set and recorder.stop() called; the
\* caller (handleVoiceButtonPress) holds the appState of the render it ran in
StopRecording ==
  /\ isRecording
  /\ mediaRecorder # 0
  /\ recorders[mediaRecorder].st = "recording"
  /\ recorders' = [recorders EXCEPT ![mediaRecorder] =
                     [st |-> "stopping", onstop |-> TRUE, sid |-> appSessionId]]
  /\ stopCalls' = Append(stopCalls, StopCall(mediaRecorder, "pending"))
  /\ UNCHANGED <<wsVars, nativeVars, isRecording, sequence, audioChunks, mediaRecorder,
                 stream, starting, processing, starts, delivered, audioLog>>

\* stopRecording() while isRecording, the recorder already stopped by an
\* earlier call: recorder.onstop is replaced by the handler of this call, and
\* recorder.stop() on the inactive recorder returns or throws, as the platform
\* has it; a throw rejects the promise of this call
StopAgain(throws) ==
  /\ isRecording
  /\ mediaRecorder # 0
  /\ recorders[mediaRecorder].st # "recording"
  /\ recorders' = [recorders EXCEPT ![mediaRecorder] =
                     [@ EXCEPT !.onstop = TRUE, !.sid = appSessionId]]
  /\ stopCalls' = Append(stopCalls,
                         StopCall(mediaRecorder,
                                  IF throws THEN "rejected" ELSE "pending"))
  /\ UNCHANGED <<wsVars, nativeVars, isRecording, sequence, audioChunks,
                 mediaRecorder, stream, starting, processing, starts, delivered,
                 audioLog>>

\* a stopped recorder delivers the data gathered since the last timeslice
FinalData(r) ==
  /\ recorders[r].st = "stopping"
  /\ \E size \in {0, 1} : delivered + size <= MaxChunks /\ ondataavailable(size)
  /\ recorders' = [recorders EXCEPT ![r].st =
                     IF recorders[r].onstop THEN "flushed" ELSE "inactive"]
  /\ UNCHANGED <<wsVars, nativeVars, stopCalls, isRecording, mediaRecorder, stream, starting, starts,
                 audioLog>>

\* recorder.onstop of recorder r up to its await of createAudioBuffer()
OnStop(r) ==
  /\ recorders[r].st = "flushed"
  /\ recorders' = [recorders EXCEPT ![r].st = "onstop"]
  /\ stopCalls' = [stopCalls EXCEPT ![Handler(r)].running = TRUE]
  /\ UNCHANGED <<wsVars, nativeVars, isRecording, sequence, audioChunks, mediaRecorder,
                 stream, starting, processing, starts, delivered, audioLog>>

\* cleanup(): the tracks of this.stream are stopped, which ends the recorder
\* that records it; the fields are cleared
cleanup(rs) ==
  IF mediaRecorder # 0 /\ rs[mediaRecorder].st = "recording"
    THEN [rs EXCEPT ![mediaRecorder].st = "stopping"]
    ELSE rs

\* recorder.onstop after createAudioBuffer(): reset, cleanup(),
\* recording_stopped, resolve; handleVoiceButtonPress then sends audio_stop if
\* its appState holds a session id
OnStopDone(r) ==
  /\ recorders[r].st = "onstop"
  /\ isRecording' = FALSE
  /\ sequence' = 0
  /\ recorders' = cleanup([recorders EXCEPT ![r].st = "inactive"])
  /\ stream' = FALSE
  /\ mediaRecorder' = 0
  /\ audioChunks' = <<>>
  /\ audioLog' = Append(audioLog,
                        AudioEvent("recording_stopped", pass, 0, sequence'))
  /\ stopCalls' = [i \in 1..Len(stopCalls) |->
                     IF stopCalls[i].rec = r /\ stopCalls[i].running
                       THEN StopCall(r, IF stopCalls[i].status = "pending"
                                          THEN "resolved"
                                          ELSE stopCalls[i].status)
                       ELSE stopCalls[i]]
  /\ IF recorders[r].sid # 0
       THEN sendMessage("audio_stop") /\ UNCHANGED wsRest
       ELSE UNCHANGED wsVars
  /\ UNCHANGED <<nativeVars, starting, processing, starts, delivered>>

\* destroy(): stopRecording() if isRecording, its rejection caught; then
\* cleanup().  The promise of that call belongs to destroy, which sends no
\* audio_stop.
Destroy ==
  /\ LET calling == isRecording /\ mediaRecorder # 0
         fresh == calling /\ recorders[mediaRecorder].st = "recording"
         rs == IF calling
                 THEN [recorders EXCEPT ![mediaRecorder] =
                         [st |-> IF fresh THEN "stopping" ELSE @.st,
                          onstop |-> TRUE, sid |-> 0]]
                 ELSE recorders
     IN  /\ recorders' = cleanup(rs)
         /\ \E throws \in BOOLEAN :
              stopCalls' =
                IF calling
                  THEN Append(stopCalls,
                              StopCall(mediaRecorder,
                                       IF throws /\ ~fresh THEN "rejected"
                                                           ELSE "pending"))
                  ELSE stopCalls
  /\ stream' = FALSE
  /\ mediaRecorder' = 0
  /\ audioChunks' = <<>>
  /\ UNCHANGED <<wsVars, nativeVars, isRecording, sequence, starting,
                 processing, starts, delivered, audioLog>>

\* ------------------------------------------- AudioRecorderModule (native)
\* x + 1 in a Java int: two's complement, 32 bits
Int32Inc(x) == IF x = 2147483647 THEN (0 - 2147483647) - 1 ELSE x + 1

\* Math.abs of a short promoted to int
Abs(x) == IF x < 0 THEN 0 - x ELSE x

\* the loop of calculateAudioLevel: sum += Math.abs(buffer[i]) for i < n
RECURSIVE SumAbs(_, _)
SumAbs(buffer, n) == IF n = 0 THEN 0 ELSE SumAbs(buffer, n - 1) + Abs(buffer[n])

\* Math.min(100, Math.max(0, (int) (average / 327.67))); for every average in
\* 0..32768 the double quotient truncates to (average * 100) \div 32767
Normalize(average) ==
  LET scaled == (average * 100) \div 32767
      floored == IF scaled < 0 THEN 0 ELSE scaled
  IN  IF floored > 100 THEN 100 ELSE floored

\* a calculateAudioLevel that averages the whole array, not the samples read
calculateAudioLevelWholeArray(buffer, bufferSize) ==
  Normalize(SumAbs(buffer, Len(buffer)) \div Len(buffer))

\* calculateAudioLevel(buffer, bufferSize): the sum is a long, and its
\* quotient by bufferSize, at most 32768, is unchanged by the cast to int
calculateAudioLevel(buffer, bufferSize) ==
  Normalize(SumAbs(buffer, bufferSize) \div bufferSize)

\* getNextSequence(): ++sequenceCounter
getNextSequence == Int32Inc(sequenceCounter)

\* an event sent to React Native; rec is the AudioRecord it belongs to
NativeEvent(ev, rec, seq) == [ev |-> ev, rec |-> rec, sequence |-> seq]

\* startRecording(promise) while not recording, the AudioRecord initialised:
\* the record is started, the flag set, a new thread started, recordingStarted
\* sent.  A call while recording is rejected and changes nothing.
NativeStartRecording ==
  /\ ~nativeIsRecording
  /\ audioRecords' = Append(audioRecords, "recording")
  /\ audioRecord' = Len(audioRecords) + 1
  /\ nativeIsRecording' = TRUE
  /\ threads' = Append(threads, [pc |-> "test", rec |-> 0])
  /\ recordingThread' = Len(threads) + 1
  /\ nativeLog' = Append(nativeLog,
                         NativeEvent("recordingStarted", Len(audioRecords) + 1, 0))
  /\ UNCHANGED <<wsVars, audioVars, sequenceCounter, audioBuffer, readResult,
                 audioLevel, earlierChunk>>

\* startRecording(promise) while not recording, the AudioRecord not
\* initialised: the field keeps the new object and the promise is rejected
NativeStartInitFailed ==
  /\ ~nativeIsRecording
  /\ audioRecords' = Append(audioRecords, "uninitialized")
  /\ audioRecord' = Len(audioRecords) + 1
  /\ UNCHANGED <<wsVars, audioVars, nativeIsRecording, recordingThread,
                 sequenceCounter, threads, nativeLog, audioBuffer, readResult,
                 audioLevel, earlierChunk>>

\* stopRecording(promise) while recording: the flag cleared, the record
\* stopped, released and forgotten, the thread interrupted and forgotten,
\* recordingStopped sent.  The loop of processAudioData never looks at the
\* interrupt.  A call while not recording is rejected and changes nothing.
NativeStopRecording ==
  /\ nativeIsRecording
  /\ nativeIsRecording' = FALSE
  /\ audioRecords' = IF audioRecord # 0
                       THEN [audioRecords EXCEPT ![audioRecord] = "released"]
                       ELSE audioRecords
  /\ audioRecord' = 0
  /\ recordingThread' = 0
  /\ nativeLog' = Append(nativeLog, NativeEvent("recordingStopped", audioRecord, 0))
  /\ UNCHANGED <<wsVars, audioVars, sequenceCounter, threads, audioBuffer,
                 readResult, audioLevel, earlierChunk>>

\* processAudioData, thread t: the loop condition isRecording.get()
LoopTest(t) ==
  /\ threads[t].pc = "test"
  /\ threads' = [threads EXCEPT ![t].pc =
                   IF nativeIsRecording THEN "read" ELSE "done"]
  /\ UNCHANGED <<wsVars, audioVars, nativeIsRecording, audioRecords, audioRecord,
                 recordingThread, sequenceCounter, nativeLog, audioBuffer,
                 readResult, audioLevel, earlierChunk>>

\* processAudioData, thread t: audioRecord.read(...) on the field's current
\* value.  A null field ends the thread with a NullPointerException; a record
\* that is not recording returns an error code; a recording one returns the
\* number of samples read, which may be 0.
LoopRead(t, result) ==
  /\ threads[t].pc = "read"
  /\ threads' = [threads EXCEPT ![t] =
       IF audioRecord = 0 THEN [pc |-> "crashed", rec |-> 0]
       ELSE IF audioRecords[audioRecord] = "recording" /\ result > 0
              THEN [pc |-> "emit", rec |-> audioRecord]
              ELSE [pc |-> "test", rec |-> audioRecord]]
  /\ UNCHANGED <<wsVars, audioVars, nativeIsRecording, audioRecords, audioRecord,
                 recordingThread, sequenceCounter, nativeLog, audioBuffer,
                 readResult, audioLevel, earlierChunk>>

\* processAudioData, thread t, readResult > 0: the audioData event with the
\* next sequence number
LoopEmit(t) ==
  /\ threads[t].pc = "emit"
  /\ sequenceCounter' = getNextSequence
  /\ nativeLog' = Append(nativeLog,
                         NativeEvent("audioData", threads[t].rec, getNextSequence))
  /\ threads' = [threads EXCEPT ![t].pc = "test"]
  /\ UNCHANGED <<wsVars, audioVars, nativeIsRecording, audioRecords, audioRecord,
                 recordingThread, audioBuffer, readResult, audioLevel, earlierChunk>>

\* one pass of the loop of processAudioData seen from the sample array: read
\* stores n samples at the head of audioBuffer and leaves the rest as it was;
\* the level of the audioData event is calculateAudioLevel(audioBuffer, n)
LoopLevel(n, chunk, remember) ==
  /\ audioBuffer' = [i \in 1..BufferLength |->
                       IF i <= n THEN chunk[i] ELSE audioBuffer[i]]
  /\ readResult' = n
  /\ audioLevel' = calculateAudioLevel(audioBuffer', n)
  /\ earlierChunk' = IF readResult > 0 /\ remember
                       THEN [samples |-> SubSeq(audioBuffer, 1, readResult),
                             level |-> audioLevel]
                       ELSE earlierChunk
  /\ UNCHANGED <<wsVars, audioVars, nativeIsRecording, audioRecords, audioRecord,
                 recordingThread, sequenceCounter, threads, nativeLog>>

\* ------------------------------------------------- specifications
\* what one run may ask of the environment and of the application
CanSend == Len(submitted) < MaxMsgs
CanCreate == Len(sockets) < MaxSockets
Observers ==
  Cardinality({<<e, i>> \in Events \X (1..(MaxCalls + MaxEffort)) :
                 i <= Len(eventListeners[e]) /\ eventListeners[e][i] = 0})

\* the connection lifecycle
NextConn(maxFail) ==
  \/ CanCreate /\ ScreenConnect
  \/ CanSend /\ ScreenHandshake
  \/ ScreenFailed
  \/ CanCreate /\ Connect
  \/ Disconnect
  \/ \E s \in 1..Len(sockets) : SocketOpen(s)
  \/ \E s \in 1..Len(sockets) : failures < maxFail /\ SocketError(s)
  \/ \E s \in 1..Len(sockets) : ReconnectAttempt(s)
  \/ \E s \in 1..Len(sockets) : drops < MaxDrops /\ SocketDrop(s)

\* the lifecycle with the fire-and-forget senders: message buffering
NextQueue ==
  \/ NextConn(MaxFaults)
  \/ CanSend /\ SendMessage
  \/ CanSend /\ HeartbeatFire

\* message buffering with a peer that sends messages: the heartbeat
NextHeartbeat ==
  \/ NextQueue
  \/ \E s \in 1..Len(sockets), t \in InboundTypes \cup HeartbeatTypes :
       inbound < MaxInbound /\ Receive(s, t)

\* the lifecycle with the request/response calls and the peer
NextSession ==
  \/ NextConn(MaxFaults)
  \/ CanSend /\ SendConnectionRequest
  \/ Observers < MaxListeners /\ On
  \/ \E s \in 1..Len(sockets), t \in InboundTypes :
       inbound < MaxInbound /\ Receive(s, t)
  \/ \E c \in 1..MaxCalls : TimerFire(c)
  \/ Tick

\* the same actions as NextSession under one common budget: the number of
\* application calls and environment events of a run
Effort == Len(sockets) + Len(submitted) + failures + drops + inbound + Observers
CanAct == Effort < MaxEffort

NextAwait ==
  \/ CanAct /\ ScreenConnect
  \/ CanAct /\ ScreenHandshake
  \/ ScreenFailed
  \/ CanAct /\ Connect
  \/ Disconnect
  \/ \E s \in 1..Len(sockets) : SocketOpen(s)
  \/ \E s \in 1..Len(sockets) : CanAct /\ SocketError(s)
  \/ \E s \in 1..Len(sockets) : ReconnectAttempt(s)
  \/ \E s \in 1..Len(sockets) : CanAct /\ SocketDrop(s)
  \/ CanAct /\ SendConnectionRequest
  \/ CanAct /\ On
  \/ \E s \in 1..Len(sockets), t \in InboundTypes : CanAct /\ Receive(s, t)
  \/ \E c \in 1..MaxCalls : TimerFire(c)
  \/ Tick

\* the same actions as NextQueue under the common budget
NextBuffer ==
  \/ CanAct /\ ScreenConnect
  \/ CanAct /\ ScreenHandshake
  \/ ScreenFailed
  \/ CanAct /\ Connect
  \/ Disconnect
  \/ \E s \in 1..Len(sockets) : SocketOpen(s)
  \/ \E s \in 1..Len(sockets) : CanAct /\ SocketError(s)
  \/ \E s \in 1..Len(sockets) : ReconnectAttempt(s)
  \/ \E s \in 1..Len(sockets) : CanAct /\ SocketDrop(s)
  \/ CanAct /\ SendMessage
  \/ CanAct /\ HeartbeatFire

\* the recording lifecycle of AudioService
NextAudio ==
  \/ starts < MaxPasses /\ StartRecording
  \/ starts < MaxPasses /\ StartAlreadyRecording
  \/ StartGranted
  \/ StartDenied
  \/ \E r \in 1..Len(recorders) : delivered < MaxChunks /\ DataAvailable(r)
  \/ ProcessAudioChunk
  \/ StopRecording
  \/ \E r \in 1..Len(recorders) : FinalData(r)
  \/ \E r \in 1..Len(recorders) : OnStop(r)
  \/ \E r \in 1..Len(recorders) : OnStopDone(r)

\* the recording lifecycle with recorders that fail to start
NextStart ==
  \/ NextAudio
  \/ StartConstructorThrows
  \/ StartStartThrows

\* the recording lifecycle with repeated stopRecording calls and destroy()
NextStop ==
  \/ NextAudio
  \/ \E throws \in BOOLEAN : Len(stopCalls) < MaxStops /\ StopAgain(throws)
  \/ Len(stopCalls) < MaxStops /\ Destroy

\* the events of a stopped recorder are delivered and its handler runs on
StopProgress(r) ==
  r <= Len(recorders) /\ (FinalData(r) \/ OnStop(r) \/ OnStopDone(r))

\* the screen: start-up, handshake, and the voice button, which starts and
\* stops a recording only while appState.connection.isConnected
NextVoice ==
  \/ CanAct /\ ScreenConnect
  \/ CanAct /\ ScreenHandshake
  \/ ScreenFailed
  \/ \E s \in 1..Len(sockets) : SocketOpen(s)
  \/ \E s \in 1..Len(sockets) : CanAct /\ SocketError(s)
  \/ \E s \in 1..Len(sockets) : ReconnectAttempt(s)
  \/ \E s \in 1..Len(sockets) : CanAct /\ SocketDrop(s)
  \/ \E s \in 1..Len(sockets), t \in InboundTypes : CanAct /\ Receive(s, t)
  \/ appIsConnected /\ starts < MaxPasses /\ StartRecording
  \/ StartGranted
  \/ StartDenied
  \/ \E r \in 1..Len(recorders) : delivered < MaxChunks /\ DataAvailable(r)
  \/ ProcessAudioChunk
  \/ appIsConnected /\ StopRecording
  \/ \E r \in 1..Len(recorders) : FinalData(r)
  \/ \E r \in 1..Len(recorders) : OnStop(r)
  \/ \E r \in 1..Len(recorders) : OnStopDone(r)

\* the connection lifecycle with connect() calls that return early
NextConnect ==
  \/ NextConn(MaxFaults)
  \/ ConnectEarly

\* message buffering with the loop of flushMessageQueue run step by step; the
\* handlers of the service run to completion, so nothing else happens while
\* the loop runs
FlushLoop == FlushIteration \/ FlushReturn

NextFlush ==
  \/ ~flushing /\ CanAct /\ ScreenConnect
  \/ ~flushing /\ CanAct /\ Connect
  \/ ~flushing /\ Disconnect
  \/ \E s \in 1..Len(sockets) : ~flushing /\ ~sockets[s].re /\ SocketOpen(s)
  \/ \E s \in 1..Len(sockets) : ~flushing /\ ReconnectBegin(s)
  \/ \E s \in 1..Len(sockets) : ~flushing /\ CanAct /\ SocketError(s)
  \/ \E s \in 1..Len(sockets) : ~flushing /\ ReconnectAttempt(s)
  \/ \E s \in 1..Len(sockets) : ~flushing /\ CanAct /\ SocketDrop(s)
  \/ ~flushing /\ CanAct /\ SendMessage
  \/ FlushIteration
  \/ FlushReturn

\* the native recorder: its two methods and its recording threads
NextNative ==
  \/ Len(audioRecords) < MaxRecords /\ NativeStartRecording
  \/ Len(audioRecords) < MaxRecords /\ NativeStartInitFailed
  \/ NativeStopRecording
  \/ \E t \in 1..Len(threads) : LoopTest(t)
  \/ \E t \in 1..Len(threads), result \in {0, 1} :
       sequenceCounter < MaxNativeChunks /\ LoopRead(t, result)
  \/ \E t \in 1..Len(threads) : LoopEmit(t)

\* the audio level of successive chunks
NextLevel ==
  \E n \in 1..BufferLength, remember \in BOOLEAN :
    \E chunk \in [1..n -> Samples] : LoopLevel(n, chunk, remember)

Next ==
  \/ NextStop
  \/ NextStart
  \/ NextConnect
  \/ NextFlush
  \/ NextNative
  \/ NextLevel
  \/ NextConn(MaxFailures)
  \/ NextQueue
  \/ NextHeartbeat
  \/ NextSession
  \/ NextAwait
  \/ NextBuffer
  \/ NextAudio
  \/ NextVoice

Spec == Init /\ [][Next]_vars
SpecConn == Init /\ [][NextConn(MaxFailures)]_vars
SpecQueue == Init /\ [][NextQueue]_vars
SpecHeartbeat == Init /\ [][NextHeartbeat]_vars
SpecSession == Init /\ [][NextSession]_vars
SpecAwait == Init /\ [][NextAwait]_vars
SpecBuffer == Init /\ [][NextBuffer]_vars
SpecAudio == Init /\ [][NextAudio]_vars
SpecVoice == Init /\ [][NextVoice]_vars
SpecNative == Init /\ [][NextNative]_vars
SpecStop ==
  Init /\ [][NextStop]_vars /\ \A r \in 1..MaxPasses : WF_vars(StopProgress(r))
SpecStart == Init /\ [][NextStart]_vars
SpecConnect == Init /\ [][NextConnect]_vars
\* the loop of flushMessageQueue keeps running once it has begun
SpecFlush == Init /\ [][NextFlush]_vars /\ WF_vars(FlushLoop)
SpecLevel == InitLevel /\ [][NextLevel]_vars

\* ============================================================ claims
RequestsSubmitted ==
  Cardinality({i \in 1..Len(submitted) : submitted[i] = "connection_request"})

\* socket s completes an automatic reconnection of the service in this step
Reconnected(s) ==
  /\ s = socket
  /\ sockets[s].st = "opening"
  /\ sockets[s].re
  /\ sockets'[s].st = "connected"

\* C1: messages reach the transport in the order in which they were passed to
\* sendMessage (ids are assigned in submission order): the transport log is
\* increasing and no buffered message is older than a message already handed over.
C1_TransportOrder ==
  /\ \A i, j \in 1..Len(wire) : i < j => wire[i] < wire[j]
  /\ \A i \in 1..Len(wire), k \in 1..Len(messageQueue) : wire[i] < messageQueue[k]

\* C2: the flush run by a reconnection hands the buffered messages to the
\* transport in exactly the order in which they were buffered, also when a
\* socket.emit fails during the flush.
C2_FlushFifo ==
  [][\A s \in 1..Len(sockets) :
       Reconnected(s) => wire' = wire \o messageQueue]_vars

\* C3: every transition of the service into connected flushes messageQueue, so
\* nothing stays buffered once the connection is up.
C3_FlushOnEveryConnect ==
  [][(~isConnected /\ isConnected') => messageQueue' = <<>>]_vars

\* C4: once a session was established, an automatic reconnection after a
\* network drop starts a new handshake by itself: a connection_request is
\* submitted by the step that brings the connection back.
C4_HandshakeOnReconnect ==
  [][\A s \in 1..Len(sockets) :
       (Reconnected(s) /\ answered >= 1) =>
         /\ Len(submitted') = Len(submitted) + 1
         /\ submitted'[Len(submitted')] = "connection_request"]_vars

\* C7: every sendWithResponse call settles within the 10 s timeout: while it is
\* pending its timer is running and at most 10 s have passed, it is rejected
\* only by that timer at the deadline, resolved only by an inbound message, and
\* resolve/reject is invoked at most once.
C7_SettlesWithinTimeout ==
  \A c \in 1..MaxCalls :
    /\ calls[c].settles <= 1
    /\ calls[c].status = "pending" =>
         /\ calls[c].armed
         /\ calls[c].age + calls[c].remaining = ResponseTimeoutMs
    /\ calls[c].status = "resolved" =>
         calls[c].resolvedBy # 0 /\ calls[c].age <= ResponseTimeoutMs
    /\ calls[c].status = "rejected" => calls[c].age = ResponseTimeoutMs
    /\ calls[c].status \in {"resolved", "rejected"} =>
         calls[c].settles = 1 /\ ~calls[c].armed

\* a call was rejected by its timer while its request was only buffered
C7_Witness ==
  \E c \in 1..MaxCalls :
    /\ calls[c].status = "rejected"
    /\ ~isConnected
    /\ \E k \in 1..Len(messageQueue) :
         submitted[messageQueue[k]] = "connection_request"

\* C8: of two calls awaiting the same response type, one inbound response
\* resolves at most one, and the later call is resolved by a later response.
C8_OneResponseOneCall ==
  \A c, d \in 1..MaxCalls :
    (c < d /\ calls[c].status = "resolved" /\ calls[d].status = "resolved")
      => calls[c].resolvedBy < calls[d].resolvedBy

\* C9: when the service leaves the connected state, every pending
\* sendWithResponse call is failed by that very transition.
C9_PendingFailedOnDisconnect ==
  [][(isConnected /\ ~isConnected') => Pending' = {}]_vars

\* C10: once a socket has used up its reconnection attempts, the service has
\* emitted a terminal connection-failed event to its subscribers (an event
\* other than the lifecycle and message events).
LifecycleEvents ==
  {"disconnect", "reconnect_attempt", "reconnect", "session_id_changed", "message"}
    \cup InboundTypes

C10_TerminalFailureEvent ==
  (\E s \in 1..Len(sockets) : sockets[s].st = "failed")
    => Cardinality(emitted \ LifecycleEvents) = 1

\* C11: the delay before automatic reconnection attempt number k is exactly
\* min(1000 * 2^k, 30000) ms: a socket waiting to retry after k retries waits
\* that long and no other duration.
C11_BackoffDelay ==
  \A s \in 1..Len(sockets) :
    sockets[s].st = "backoff" =>
      reconnectionDelays(sockets[s].attempts) =
        {Min(1000 * Pow2(sockets[s].attempts), 30000)}

\* C12: a connection on which a heartbeat was sent and nothing was received
\* for interval + gracePeriod (40 s) is torn down: the heartbeat timer never
\* fires for the second time after an unanswered heartbeat (60 s later) with
\* the service still connected.
C12_HeartbeatTimeout == silence <= 2

\* C13: messageQueue has a fixed capacity and a sendMessage beyond it drops the
\* oldest buffered message: for a capacity below the number of messages a run
\* submits, the queue never holds all the messages of the run.
C13_QueueBounded ==
  \E capacity \in 1..(MaxMsgs - 1) : Len(messageQueue) <= capacity

\* C14: sessionId is non-null only while the service is connected: leaving the
\* connected state clears it, and it becomes non-null only by a
\* connection_response received while connected.
C14_SessionOnlyWhileConnected ==
  /\ [](sessionId # 0 => isConnected)
  /\ [][(isConnected /\ ~isConnected') => sessionId' = 0]_vars
  /\ [][(sessionId = 0 /\ sessionId' # 0) =>
         (isConnected /\ isConnected' /\ answered' = answered + 1)]_vars

\* a session was established and the connection that carried it has ended
C14_Witness ==
  /\ answered >= 1
  /\ sessionId = 0
  /\ ~isConnected
  /\ \E s \in 1..Len(sockets) : sockets[s].st \in {"backoff", "closed"}

\* C15: a startRecording call made while an earlier one is in progress or
\* running fails and changes nothing: at most one recorder is recording at any
\* time.
C15_SingleRecording ==
  Cardinality({r \in 1..Len(recorders) : recorders[r].st = "recording"}) <= 1

\* C16: a transport failure is never surfaced to the caller of connect() or
\* sendMessage(): no promise returned by connect() is rejected, and every
\* message passed to sendMessage is on the wire or buffered.
C16_TransportErrorsAbsorbed ==
  /\ \A s \in 1..Len(sockets) : sockets[s].promise # "rejected"
  /\ \A m \in 1..Len(submitted) :
       \/ \E i \in 1..Len(wire) : wire[i] = m
       \/ \E k \in 1..Len(messageQueue) : messageQueue[k] = m

\* C17: after disconnect(), issued in any state, the next connect() starts a
\* new connection attempt: while this.socket is null the early return of
\* connect() does not apply, and a socket closed by disconnect() stays closed.
C17_ConnectAfterDisconnect ==
  /\ socket = 0 => ~(isConnected \/ isConnecting)
  /\ \A s \in 1..Len(sockets) : sockets[s].st = "closed" => s # socket

\* C18: disconnect() leaves messageQueue unchanged and hands nothing to the
\* transport, and while the service is not connected the buffered messages stay
\* buffered in their order (new ones are appended) and nothing reaches the wire.
C18_DisconnectKeepsQueue ==
  /\ [][(socket # 0 /\ socket' = 0) =>
         (messageQueue' = messageQueue /\ wire' = wire)]_vars
  /\ [][~isConnected' =>
         (wire' = wire /\ IsPrefix(messageQueue, messageQueue'))]_vars

\* a message buffered before a disconnect() is still buffered once the next
\* connect() has brought up a new connection
C18_Witness ==
  /\ Len(sockets) = 2
  /\ sockets[1].st = "closed"
  /\ socket = 2
  /\ isConnected
  /\ Len(messageQueue) >= 1
  /\ messageQueue[1] = 1

\* sendConnectionRequest calls made so far
CallsStarted == {c \in 1..MaxCalls : calls[c].status # "none"}

\* C19: a sendConnectionRequest that timed out leaves the session unestablished
\* until a new handshake is started, also when the response arrives late: if
\* every handshake started so far has timed out, sessionId is null.
C19_TimedOutHandshake ==
  ( /\ CallsStarted # {}
    /\ RequestsSubmitted = Cardinality(CallsStarted)
    /\ \A c \in CallsStarted : calls[c].status = "rejected" )
  => sessionId = 0

\* observers registered through on() for event e
ObserversOf(e) ==
  Cardinality({i \in 1..Len(eventListeners[e]) : eventListeners[e][i] = 0})

\* C20: an inbound message that is not a connection_response (here a
\* status_update) is passed once to every observer registered for its type and
\* to every observer registered for 'message', and leaves the pending
\* sendWithResponse calls, their timers and their handlers as they are.
C20_UnsolicitedDispatch ==
  [][(inbound' = inbound + 1 /\ answered' = answered) =>
       /\ notified'["status_update"] =
            notified["status_update"] + ObserversOf("status_update")
       /\ notified'["message"] = notified["message"] + ObserversOf("message")
       /\ notified'["connection_response"] = notified["connection_response"]
       /\ calls' = calls
       /\ eventListeners' = eventListeners]_vars

\* a status_update has reached an observer of its type and one of 'message'
\* while a sendWithResponse call was pending, and the call is still pending
C20_Witness ==
  /\ notified["status_update"] >= 1
  /\ notified["message"] >= 1
  /\ answered = 0
  /\ \E c \in 1..MaxCalls :
       calls[c].status = "pending" /\ calls[c].armed /\ calls[c].age = 0

\* C21: the heartbeat timer is active only while the service is connected, and
\* every transition into connected leaves the timer running.
C21_HeartbeatOnlyConnected ==
  /\ [](heartbeatInterval => isConnected)
  /\ [][(~isConnected /\ isConnected') => heartbeatInterval']_vars

ChunksOf(p) ==
  {i \in 1..Len(audioLog) : audioLog[i].ev = "audio_chunk" /\ audioLog[i].pass = p}

\* C23: stopping drops and delays no chunk: when recording_stopped of a pass is
\* emitted no chunk of that pass is still being processed, so every audio_chunk
\* event of the pass precedes its recording_stopped event.
C23_ChunksBeforeStopped ==
  \A i \in 1..Len(audioLog) :
    audioLog[i].ev = "recording_stopped" =>
      /\ \A k \in processing : k.pass # audioLog[i].pass
      /\ \A j \in ChunksOf(audioLog[i].pass) : j < i

\* C24: while a session is established, every audio_chunk event emitted by
\* AudioService makes the screen submit exactly one audio_data message.
C24_ChunkBecomesAudioData ==
  [][( /\ Len(audioLog') = Len(audioLog) + 1
       /\ audioLog'[Len(audioLog')].ev = "audio_chunk"
       /\ sessionId # 0 ) =>
       ( /\ Len(submitted') = Len(submitted) + 1
         /\ submitted'[Len(submitted')] = "audio_data" )]_vars

\* C25: the voice-processing messages are sent in protocol order: an
\* audio_data or audio_stop message is preceded by an audio_start message.
C25_AudioStartFirst ==
  \A i \in 1..Len(submitted) :
    submitted[i] \in {"audio_data", "audio_stop"} =>
      \E j \in 1..(i - 1) : submitted[j] = "audio_start"

\* C26: a heartbeat message received from the server is answered: the step
\* that dispatches (the first) heartbeat submits a heartbeat_response.
C26_HeartbeatAnswered ==
  [][("heartbeat" \notin emitted /\ "heartbeat" \in emitted') =>
       ( /\ Len(submitted') = Len(submitted) + 1
         /\ submitted'[Len(submitted')] = "heartbeat_response" )]_vars

\* occurrences of message m in sequence q
Occurrences(q, m) == Cardinality({i \in 1..Len(q) : q[i] = m})

\* C27: every message passed to sendMessage has been handed to the transport
\* exactly once or is buffered exactly once, never both and never neither.
C27_ExactlyOnce ==
  \A m \in 1..Len(submitted) :
    Occurrences(wire, m) + Occurrences(messageQueue, m) = 1

\* a message whose emit failed was buffered, overtaken by a later message and
\* handed to the transport by the flush of a reconnection
C27_Witness ==
  /\ emitFailures >= 1
  /\ messageQueue = <<>>
  /\ drops >= 1
  /\ \E i, j \in 1..Len(wire) : i < j /\ wire[i] > wire[j]

\* C28: in the native module the audioData events of each recording carry the
\* sequence numbers 0, 1, 2, ...: each carries the number of audioData events
\* of its recording sent before it
C28_NativeSequenceFromZero ==
  \A i \in 1..Len(nativeLog) :
    nativeLog[i].ev = "audioData" =>
      nativeLog[i].sequence =
        Cardinality({j \in 1..(i - 1) : /\ nativeLog[j].ev = "audioData"
                                        /\ nativeLog[j].rec = nativeLog[i].rec})

\* C29: the level of every chunk of at least one sample lies in 0..100, and
\* two chunks of the same samples get the same level, whatever came between
\* them and whatever the array held
C29_LevelInRangeAndPure ==
  readResult > 0 =>
    /\ audioLevel \in 0..100
    /\ earlierChunk.samples = SubSeq(audioBuffer, 1, readResult) =>
         earlierChunk.level = audioLevel

\* the same one-sample chunk of -32768 twice, silence in the rest of the
\* array: level 100 both times
C29_Witness ==
  /\ readResult = 1
  /\ audioBuffer[1] = -32768
  /\ audioBuffer[BufferLength] = 0
  /\ earlierChunk = [samples |-> <<-32768>>, level |-> 100]
  /\ audioLevel = 100

\* C30: the dispatch of a connection_response runs every observer registered
\* for connection_response at that moment exactly once, also when the handler
\* of a pending sendWithResponse call unregisters itself during the dispatch
C30_EveryListenerOnce ==
  [][(answered' = answered + 1) =>
       notified'["connection_response"] =
         notified["connection_response"] + ObserversOf("connection_response")]_vars

\* C31: flushMessageQueue terminates: a flush that has begun returns
C31_FlushTerminates == flushing ~> ~flushing

\* C32: whenever a promise returned by connect() resolves, isConnected() is
\* true at that moment: both for the promises resolved by a socket's 'connect'
\* handler and for those resolved by the early return
C32_ResolvedMeansConnected ==
  /\ [](FALSE \notin resolvedEarly)
  /\ [][\A s \in 1..Len(sockets) :
          (sockets[s].promise = "pending" /\ sockets'[s].promise = "resolved")
            => isConnected']_vars

\* the sockets that can still deliver events into the service
LiveSockets ==
  {s \in 1..Len(sockets) : sockets[s].st \in {"opening", "backoff", "connected"}}

\* C33: at most one socket created by the service is live at any time
C33_OneLiveSocket == Cardinality(LiveSockets) <= 1

\* C34: a startRecording call that fails (it ends without recording_started)
\* leaves isRecording false, no open stream and no recorder
C34_FailedStartHoldsNothing ==
  [][(starting' = starting - 1 /\ audioLog' = audioLog) =>
       (~isRecording' /\ ~stream' /\ mediaRecorder' = 0)]_vars

\* C35: every stopRecording call that returned a promise is settled in the
\* end, and a call is resolved only with isRecording false and the stream
\* released
C35_StopSettles ==
  /\ \A c \in 1..MaxStops :
       (c <= Len(stopCalls) /\ stopCalls[c].status = "pending")
         ~> (c <= Len(stopCalls) /\ stopCalls[c].status # "pending")
  /\ [][\A c \in 1..Len(stopCalls) :
          (stopCalls[c].status = "pending" /\ stopCalls'[c].status = "resolved")
            => (~isRecording' /\ ~stream')]_vars

\* the recording threads that have passed the loop test and call read
Reading == {t \in 1..Len(threads) : threads[t].pc = "read"}

\* C36: at most one recording thread is reading at any time, and a thread
\* never calls read on an AudioRecord that stopRecording has released or on
\* the field stopRecording has set to null
C36_ReadOnlyLiveRecord ==
  /\ [](Cardinality(Reading) <= 1)
  /\ [][\A t \in 1..Len(threads) :
          (threads[t].pc = "read" /\ threads'[t].pc # "read")
            => (audioRecord # 0 /\ audioRecords[audioRecord] # "released")]_vars

\* C37: no audioData event of a recording follows the recordingStopped event
\* of that recording
C37_NoDataAfterStopped ==
  \A i, j \in 1..Len(nativeLog) :
    (i < j /\ nativeLog[i].ev = "recordingStopped"
           /\ nativeLog[j].ev = "audioData")
      => nativeLog[j].rec # nativeLog[i].rec

\* the registrations of the responseHandler of call c, under every event
HandlersOf(c) ==
  {<<e, i>> \in AllEvents \X (1..(MaxCalls + MaxEffort)) :
     i <= Len(eventListeners[e]) /\ eventListeners[e][i] = c}

\* C38: the responseHandlers registered are those of the pending calls, one
\* each, under the response type; a settled call has no handler and no armed
\* timer, and no call is settled twice
C38_HandlersMatchPending ==
  \A c \in 1..MaxCalls :
    /\ calls[c].status = "pending" =>
         /\ \A h \in HandlersOf(c) : h[1] = "connection_response"
         /\ Cardinality(HandlersOf(c)) = 1
         /\ calls[c].armed
    /\ calls[c].status # "pending" =>
         (HandlersOf(c) = {} /\ ~calls[c].armed)
    /\ calls[c].settles <= 1

\* one call was resolved by a response, the other rejected by its timer, and
\* a second connection_response was dispatched after that
C38_Witness ==
  \E c, d \in 1..MaxCalls :
    /\ calls[c].status = "resolved"
    /\ calls[d].status = "rejected"
    /\ answered >= 2

\* the chunks captured in recording pass p: those whose audio_chunk event was
\* emitted and those still inside processAudioChunk
CapturedIn(p) ==
  {audioLog[j].chunk : j \in ChunksOf(p)}
    \cup {k.chunk : k \in {x \in processing : x.pass = p}}

\* C39: the recording_stopped event carries in sequenceCount the number of
\* chunks captured in the pass it ends
C39_StoppedCountsChunks ==
  \A i \in 1..Len(audioLog) :
    audioLog[i].ev = "recording_stopped" =>
      audioLog[i].sequence = Cardinality(CapturedIn(audioLog[i].pass))

\* C5: the audio_chunk events of a recording pass carry the sequence values
\* 0, 1, 2, ... in emission order: each carries the number of chunks of its
\* pass emitted before it, and none but the last is marked final.
C5_SequenceOfPass ==
  \A i \in 1..Len(audioLog) :
    audioLog[i].ev = "audio_chunk" =>
      /\ audioLog[i].sequence =
           Cardinality({j \in ChunksOf(audioLog[i].pass) : j < i})
      /\ audioLog[i].isFinal => \A j \in ChunksOf(audioLog[i].pass) : j <= i

\* C6: every completed stop has emitted exactly one chunk marked final for its
\* pass, after the other chunks of the pass and before recording_stopped, with
\* sequence equal to the number of chunks emitted before it.
C6_FinalChunkOnStop ==
  \A i \in 1..Len(audioLog) :
    audioLog[i].ev = "recording_stopped" =>
      \E f \in ChunksOf(audioLog[i].pass) :
        /\ f < i
        /\ audioLog[f].isFinal
        /\ \A j \in ChunksOf(audioLog[i].pass) :
             /\ j <= f
             /\ audioLog[j].isFinal => j = f
        /\ audioLog[f].sequence = Cardinality(ChunksOf(audioLog[i].pass)) - 1

====
